---- MODULE Spec2Model ----
(***************************************************************************)
(* The three scripts of the repository as state machines:                  *)
(*   scripts/fetch_phoenix_traces.py      SpecFetch (one run of main) and  *)
(*                                        SpecSpan (the per-span           *)
(*                                        conversion and its serialization)*)
(*   scripts/list_benchmark_packages.py   SpecLister                       *)
(*   test/packages/parallel/system/script.py   SpecXref                    *)
(***************************************************************************)
EXTENDS Integers, Sequences, FiniteSets, TLC

VARIABLES
    \* fetch_phoenix_traces.py, one run of main()
    pc,          \* position in main: "start", "fetched", "reported", "exit"
    args,        \* parsed command line: [session_id, output]
    response,    \* what requests.post returns: [status_code, body]
    result,      \* outcome of fetch_traces: [tag, val] / [tag, exc]
    stderr,      \* diagnostic lines printed so far
    stdout,      \* texts printed to standard output
    outfile,     \* texts written to the file args.output names
    exitCode,    \* process exit status (-1 while running)
    \* the per-span conversion of fetch_traces on one span node
    spc,         \* "node", "converted", "dumped"
    span,        \* the span node of the response
    span_data,   \* outcome of the conversion: [tag, val] / [tag, exc]
    dumped,      \* json.dumps of the converted attributes
    \* list_benchmark_packages.py
    lpc,         \* "packages" (outer loop) or "benchmarks" (inner loop)
    fs,          \* the tree under packages_path: a set of [path, kind]
    todo,        \* entries of packages_path the outer loop has yet to take
    package_path,\* the entry the outer loop is at
    benchmarks,  \* entries of rally_path the inner loop has yet to take
    printed,     \* the lines printed so far
    \* test/packages/parallel/system/script.py
    xpc,         \* "loop" (reading lines), "done" or "crashed"
    listfile,    \* the file --list names, as [dashboard, references] lines
    lines,       \* f.readlines(): the text of each line
    line_no,     \* lines the loop has taken
    dashboards_references,  \* dict: dashboard -> list of references
    references_dashboards,  \* dict: reference -> list of dashboards
    xargs,       \* the parsed --reference, --dashboard, --all_dashboards
    xout         \* what was printed

fetchVars == <<pc, args, response, result, stderr, stdout, outfile, exitCode>>
spanVars == <<spc, span, span_data, dumped>>
listerVars == <<lpc, fs, todo, package_path, benchmarks, printed>>
xrefVars ==
    <<xpc, listfile, lines, line_no, dashboards_references,
      references_dashboards, xargs, xout>>
vars == <<fetchVars, spanVars, listerVars, xrefVars>>

----------------------------------------------------------------------------
(* Bounds of the model *)

\* longest attributes text, in tokens
MaxLen == 4
\* most trace edges in a session
MaxTraces == 2
\* most span edges in a session, over all its traces
MaxSpans == 2
\* most entries of the packages directory
MaxPackages == 1
\* most entries of a rally directory
MaxBenchmarks == 2
\* most lines of a list file
MaxLines == 2
\* most references of a line
MaxRefs == 2

----------------------------------------------------------------------------
(* Python values.  Every value is a record tagged by its type, so that any *)
(* two of them can be compared.  A text (the content of a str) is a        *)
(* sequence of tokens.                                                     *)

PyNone == [k |-> "None"]
PyInt(n) == [k |-> "int", n |-> n]
PyStr(text) == [k |-> "str", text |-> text]
\* a dict keeps its items in insertion order: a sequence of [key, val]
PyDict(items) == [k |-> "dict", items |-> items]
\* a list
PyList(items) == [k |-> "list", items |-> items]
\* a key that a dict (a JSON object of the response) does not have
Absent == [k |-> "absent"]

IsStr(v) == v.k = "str"
IsDict(v) == v.k = "dict"

\* bool(v): None, 0, "" and {} are false
Truthy(v) ==
    /\ v # PyNone
    /\ v # PyInt(0)
    /\ v # PyStr(<<>>)
    /\ v # PyDict(<<>>)

(* Tokens of a text: punctuation, a run of white space, an integer         *)
(* literal, a word of letters, and a string literal "..." with its content.*)
P(c) == [p |-> c]
Ws == [p |-> " "]
Num(n) == [num |-> n]
Word(w) == [w |-> w]
Lit(text) == [lit |-> text]

IsLit(t) == "lit" \in DOMAIN t
IsNum(t) == "num" \in DOMAIN t

\* d[key] = val of a dict's item list: a known key keeps its place
RECURSIVE DictPut(_, _, _)
DictPut(items, key, val) ==
    IF items = <<>> THEN <<[key |-> key, val |-> val]>>
    ELSE IF Head(items).key = key
         THEN <<[key |-> key, val |-> val]>> \o Tail(items)
         ELSE <<Head(items)>> \o DictPut(Tail(items), key, val)

\* d.get(key) of a dict
RECURSIVE DictGet(_, _)
DictGet(items, key) ==
    IF items = <<>> THEN PyNone
    ELSE IF Head(items).key = key THEN Head(items).val
         ELSE DictGet(Tail(items), key)

----------------------------------------------------------------------------
(* json.loads: the decoder of the standard library on a token text.        *)
(* A parse returns [ok, val, next]: next is the index after the value.     *)

ParseFail == [ok |-> FALSE, val |-> PyNone, next |-> 0]
ParseOk(v, n) == [ok |-> TRUE, val |-> v, next |-> n]

RECURSIVE SkipWs(_, _)
SkipWs(toks, i) ==
    IF i <= Len(toks) /\ toks[i] = Ws THEN SkipWs(toks, i + 1) ELSE i

At(toks, i, t) == i <= Len(toks) /\ toks[i] = t

RECURSIVE ParseValue(_, _)
RECURSIVE ParseMembers(_, _, _)
\* the members of an object, at the key of the next one; items: those read
ParseMembers(toks, i, items) ==
    IF ~(i <= Len(toks) /\ IsLit(toks[i])) THEN ParseFail
    ELSE LET key == toks[i].lit
             c == SkipWs(toks, i + 1)
         IN  IF ~At(toks, c, P(":")) THEN ParseFail
             ELSE LET v == ParseValue(toks, SkipWs(toks, c + 1))
                  IN  IF ~v.ok THEN ParseFail
                      ELSE LET e == SkipWs(toks, v.next)
                               more == DictPut(items, key, v.val)
                           IN  IF At(toks, e, P("}"))
                               THEN ParseOk(PyDict(more), e + 1)
                               ELSE IF At(toks, e, P(","))
                               THEN ParseMembers(toks, SkipWs(toks, e + 1), more)
                               ELSE ParseFail

ParseValue(toks, i) ==
    IF i > Len(toks) THEN ParseFail
    ELSE LET t == toks[i]
         IN  IF IsLit(t) THEN ParseOk(PyStr(t.lit), i + 1)
             ELSE IF IsNum(t) THEN ParseOk(PyInt(t.num), i + 1)
             ELSE IF t = P("null") THEN ParseOk(PyNone, i + 1)
             ELSE IF t = P("{")
             THEN LET j == SkipWs(toks, i + 1)
                  IN  IF At(toks, j, P("}"))
                      THEN ParseOk(PyDict(<<>>), j + 1)
                      ELSE ParseMembers(toks, j, <<>>)
             ELSE ParseFail

\* json.loads(text): [ok, val]; ~ok is json.JSONDecodeError
JsonLoads(toks) ==
    LET v == ParseValue(toks, SkipWs(toks, 1))
    IN  IF v.ok /\ SkipWs(toks, v.next) = Len(toks) + 1
        THEN [ok |-> TRUE, val |-> v.val]
        ELSE [ok |-> FALSE, val |-> PyNone]

----------------------------------------------------------------------------
(* json.dumps(value, indent=2): an empty dict is "{}", the items of another*)
(* one follow a line break each, "key": value, separated by commas.        *)

RECURSIVE JsonDumps(_)
RECURSIVE DumpItems(_)
DumpItems(items) ==
    IF items = <<>> THEN <<>>
    ELSE <<Ws, Lit(Head(items).key), P(":"), Ws>>
            \o JsonDumps(Head(items).val)
            \o (IF Len(items) > 1 THEN <<P(",")>> ELSE <<>>)
            \o DumpItems(Tail(items))

JsonDumps(v) ==
    IF v.k = "None" THEN <<P("null")>>
    ELSE IF v.k = "int" THEN <<Num(v.n)>>
    ELSE IF v.k = "str" THEN <<Lit(v.text)>>
    ELSE IF v.items = <<>> THEN <<P("{"), P("}")>>
    ELSE <<P("{")>> \o DumpItems(v.items) \o <<Ws, P("}")>>

----------------------------------------------------------------------------
(* fetch_traces, the body of the loop over a trace's span edges            *)

\* an outcome of a call: a returned value or a raised exception
Returned(v) == [tag |-> "return", val |-> v]
Raised(e) == [tag |-> "raise", exc |-> e]
NotYet == [tag |-> "none"]

\* node.get(key): None for a key the node does not have
Get(node, key) == IF node[key] = Absent THEN PyNone ELSE node[key]

\* the keys of a span node read as span["key"]: KeyError when absent
SpanIndexed ==
    {"name", "spanKind", "statusCode", "startTime", "endTime", "latencyMs",
     "parentId", "tokenCountTotal", "tokenCountPrompt", "tokenCountCompletion"}

\* ParseAttributes without the except clause
ParseAttributesRaises(node) ==
    LET attrs == Get(node, "attributes")
    IN  IF Truthy(attrs) /\ IsStr(attrs)
        THEN LET r == JsonLoads(attrs.text)
             IN  IF r.ok THEN Returned(r.val) ELSE Raised("JSONDecodeError")
        ELSE Returned(attrs)

\* ParseAttributes with the decoded value dropped
ParseAttributesKeepsRaw(node) == Returned(Get(node, "attributes"))

\* ParseAttributes keeping the decoded value only when it is a dict
ParseAttributesDictOnly(node) ==
    LET attrs == Get(node, "attributes")
    IN  IF Truthy(attrs) /\ IsStr(attrs)
        THEN LET r == JsonLoads(attrs.text)
             IN  IF r.ok /\ IsDict(r.val) THEN Returned(r.val)
                 ELSE Returned(attrs)
        ELSE Returned(attrs)

\* attrs = span.get("attributes"), decoded when it is a non-empty str and
\* decodes; JSONDecodeError is passed over
ParseAttributes(node) ==
    LET attrs == Get(node, "attributes")
    IN  IF Truthy(attrs) /\ IsStr(attrs)
        THEN LET r == JsonLoads(attrs.text)
             IN  IF r.ok THEN Returned(r.val) ELSE Returned(attrs)
        ELSE Returned(attrs)

\* span.get(f, {}).get("value") if span.get(f) else None
ValueOf(node, f) ==
    LET v == Get(node, f)
    IN  IF ~Truthy(v) THEN Returned(PyNone)
        ELSE IF IsDict(v) THEN Returned(DictGet(v.items, <<Word("value")>>))
        ELSE Raised("AttributeError")

\* the dict literal span_data = {...}, given the three computed values
SpanData(node, attrs, input, output) ==
        IF attrs.tag = "raise" THEN attrs
        ELSE IF \E f \in SpanIndexed : node[f] = Absent THEN Raised("KeyError")
        ELSE IF input.tag = "raise" THEN input
        ELSE IF output.tag = "raise" THEN output
        ELSE Returned([name |-> node.name,
                       spanKind |-> node.spanKind,
                       statusCode |-> node.statusCode,
                       statusMessage |-> Get(node, "statusMessage"),
                       startTime |-> node.startTime,
                       endTime |-> node.endTime,
                       latencyMs |-> node.latencyMs,
                       parentId |-> node.parentId,
                       tokenCountTotal |-> node.tokenCountTotal,
                       tokenCountPrompt |-> node.tokenCountPrompt,
                       tokenCountCompletion |-> node.tokenCountCompletion,
                       input |-> input.val,
                       output |-> output.val,
                       attributes |-> attrs.val])

\* the span_data of one span node
FlattenSpan(node) ==
    SpanData(node, ParseAttributes(node), ValueOf(node, "input"),
             ValueOf(node, "output"))

----------------------------------------------------------------------------
(* fetch_traces *)

\* node.get(key, {}).get("edges", []) of a session or trace node
Edges(node, key) ==
    IF node[key] = Absent THEN <<>>
    ELSE IF node[key].edges = Absent THEN <<>>
    ELSE node[key].edges.items

\* list.append in a loop: the first exception ends the loop
Appended(first, rest) ==
    IF first.tag = "raise" THEN first
    ELSE IF rest.tag = "raise" THEN rest
    ELSE Returned(<<first.val>> \o rest.val)

\* the loop over a trace's span edges: the list of span_data, or the first
\* exception
RECURSIVE FlattenSpans(_)
FlattenSpans(edges) ==
    IF edges = <<>> THEN Returned(<<>>)
    ELSE Appended(FlattenSpan(Head(edges).node), FlattenSpans(Tail(edges)))

\* the keys of a trace node read as trace["key"]
TraceIndexed == {"traceId", "startTime", "endTime", "latencyMs"}

\* trace_data, given the outcome of the loop over the span edges
TraceData(trace, spans) ==
    IF \E f \in TraceIndexed : trace[f] = Absent THEN Raised("KeyError")
    ELSE IF spans.tag = "raise" THEN spans
    ELSE Returned([traceId |-> trace.traceId,
                   startTime |-> trace.startTime,
                   endTime |-> trace.endTime,
                   latencyMs |-> trace.latencyMs,
                   spans |-> spans.val])

\* the trace_data of one trace node
FlattenTrace(trace) == TraceData(trace, FlattenSpans(Edges(trace, "spans")))

\* the loop over the session's trace edges
RECURSIVE FlattenTraces(_)
FlattenTraces(edges) ==
    IF edges = <<>> THEN Returned(<<>>)
    ELSE Appended(FlattenTrace(Head(edges).node), FlattenTraces(Tail(edges)))

\* the keys of the session object read as session_data["key"]
SessionIndexed == {"sessionId", "numTraces", "startTime", "endTime"}

\* result, given the outcome of the loop over the trace edges
SessionResult(session_data, traces) ==
    IF \E f \in SessionIndexed : session_data[f] = Absent
    THEN Raised("KeyError")
    ELSE IF traces.tag = "raise" THEN traces
    ELSE Returned([sessionId |-> session_data.sessionId,
                   numTraces |-> session_data.numTraces,
                   startTime |-> session_data.startTime,
                   endTime |-> session_data.endTime,
                   traces |-> traces.val])

\* the flattened result of a session object
FlattenSession(session_data) ==
    SessionResult(session_data, FlattenTraces(Edges(session_data, "traces")))

\* response.raise_for_status(): HTTPError for a 4xx or 5xx status
IsErrorStatus(code) == 400 <= code /\ code < 600

\* the payload without a "data" key reads as {}
EmptyData == [getProjectSessionById |-> Absent]

\* SessionOf reading d["getProjectSessionById"]
SessionOfIndexed(d) ==
    IF d = PyNone THEN Raised("AttributeError")
    ELSE IF d.getProjectSessionById = Absent THEN Raised("KeyError")
    ELSE IF ~Truthy(d.getProjectSessionById) THEN Returned(PyNone)
    ELSE FlattenSession(d.getProjectSessionById)

\* lines 82-135, given data.get("data", {})
SessionOf(d) ==
    IF d = PyNone THEN Raised("AttributeError")
    ELSE IF ~Truthy(Get(d, "getProjectSessionById")) THEN Returned(PyNone)
    ELSE FlattenSession(d.getProjectSessionById)

\* FetchTraces looking at the errors only when there is no data
FetchTracesDataFirst(resp) ==
    IF IsErrorStatus(resp.status_code) THEN Raised("HTTPError")
    ELSE IF resp.body.errors # Absent
            /\ (resp.body.data = Absent \/ resp.body.data = PyNone)
    THEN Raised("Exception")
    ELSE SessionOf(IF resp.body.data = Absent THEN EmptyData
                   ELSE resp.body.data)

\* fetch_traces(session_id, base_url), given the response of the request
FetchTraces(resp) ==
    IF IsErrorStatus(resp.status_code) THEN Raised("HTTPError")
    ELSE IF resp.body.errors # Absent THEN Raised("Exception")
    ELSE SessionOf(IF resp.body.data = Absent THEN EmptyData
                   ELSE resp.body.data)

----------------------------------------------------------------------------
(* Span nodes of a response *)

Str(w) == PyStr(<<Word(w)>>)

\* the text {"a": 1}
ObjectText == <<P("{"), Lit(<<Word("a")>>), P(":"), Ws, Num(1), P("}")>>
\* a text that does not decode
BrokenText == <<P("{"), Lit(<<Word("a")>>), P(":")>>

\* a span with every field present
BaseSpan ==
    [name |-> Str("llm"), spanKind |-> Str("LLM"), statusCode |-> Str("OK"),
     statusMessage |-> Str("fine"), startTime |-> Str("t0"),
     endTime |-> Str("t1"), latencyMs |-> PyInt(3), parentId |-> PyNone,
     tokenCountTotal |-> PyInt(7), tokenCountPrompt |-> PyInt(4),
     tokenCountCompletion |-> PyInt(3),
     input |-> PyDict(<<[key |-> <<Word("value")>>, val |-> Str("q")]>>),
     output |-> PyDict(<<[key |-> <<Word("value")>>, val |-> Str("r")]>>),
     attributes |-> PyStr(ObjectText)]

\* the tokens the attributes texts are made of
Alphabet ==
    {P("{"), P("}"), P(":"), P(","), P("null"), Ws, Num(1), Lit(<<Word("a")>>)}

Texts == UNION {[1..n -> Alphabet] : n \in 0..MaxLen}

MessageValues == {Absent, PyNone, Str("fine")}
CountValues == {Absent, PyNone, PyInt(7)}
IOValues ==
    {Absent, PyNone, PyDict(<<>>),
     PyDict(<<[key |-> <<Word("value")>>, val |-> Str("q")]>>)}
AttributeValues ==
    {Absent, PyNone, PyInt(5), PyDict(<<>>)} \cup {PyStr(t) : t \in Texts}

\* span nodes whose optional fields vary, and span nodes whose attributes do
SpanNodes ==
    {[BaseSpan EXCEPT !.statusMessage = m, !.input = i, !.output = o,
                      !.tokenCountTotal = ct, !.tokenCountPrompt = cp,
                      !.tokenCountCompletion = cc] :
        m \in MessageValues, i \in IOValues, o \in IOValues,
        ct \in CountValues, cp \in CountValues, cc \in CountValues}
    \cup {[BaseSpan EXCEPT !.attributes = a] : a \in AttributeValues}

----------------------------------------------------------------------------
(* SpecSpan: the conversion of one span node, then the serialization of    *)
(* its attributes as main writes them                                      *)

XrefIdle ==
    /\ xpc = "idle" /\ listfile = <<>> /\ lines = <<>> /\ line_no = 0
    /\ dashboards_references = <<>> /\ references_dashboards = <<>>
    /\ xargs = PyNone /\ xout = <<>>

ListerIdle ==
    /\ lpc = "idle" /\ fs = {} /\ todo = {} /\ package_path = ""
    /\ benchmarks = {} /\ printed = <<>>

FetchIdle ==
    /\ pc = "idle" /\ args = PyNone /\ response = PyNone /\ result = NotYet
    /\ stderr = <<>> /\ stdout = <<>> /\ outfile = <<>> /\ exitCode = -1

InitSpan ==
    /\ XrefIdle
    /\ FetchIdle
    /\ ListerIdle
    /\ spc = "node"
    /\ span \in SpanNodes
    /\ span_data = NotYet
    /\ dumped = <<>>

ConvertSpan ==
    /\ spc = "node"
    /\ span_data' = FlattenSpan(span)
    /\ spc' = "converted"
    /\ UNCHANGED <<span, dumped, fetchVars, listerVars, xrefVars>>

DumpSpan ==
    /\ spc = "converted"
    /\ span_data.tag = "return"
    /\ dumped' = JsonDumps(span_data.val.attributes)
    /\ spc' = "dumped"
    /\ UNCHANGED <<span, span_data, fetchVars, listerVars, xrefVars>>

NextSpan == ConvertSpan \/ DumpSpan

SpecSpan == InitSpan /\ [][NextSpan]_vars

----------------------------------------------------------------------------
(* Responses of the server *)

\* a span with absent and null optional fields and a scalar attributes text
SparseSpan ==
    [BaseSpan EXCEPT !.name = Str("tool"), !.statusMessage = Absent,
                     !.input = Absent, !.output = PyNone,
                     !.tokenCountTotal = PyNone, !.tokenCountPrompt = PyNone,
                     !.tokenCountCompletion = PyNone,
                     !.attributes = PyStr(<<Num(1)>>)]

\* the span nodes the sessions are made of
SessionSpans ==
    {BaseSpan,
     SparseSpan,
     [BaseSpan EXCEPT !.name = Str("chain"), !.attributes = PyStr(BrokenText)],
     [BaseSpan EXCEPT !.name = Str("agent"), !.tokenCountTotal = Absent]}

Edge(n) == [node |-> n]

\* the lists of at most n span edges
SpanEdges(n) == UNION {[1..m -> {Edge(sp) : sp \in SessionSpans}] : m \in 0..n}

\* the spans field of a trace node with at most n spans
SpanFields(n) ==
    {Absent, [edges |-> Absent]} \cup {[edges |-> PyList(e)] : e \in SpanEdges(n)}

TraceNode(i, spans) ==
    [traceId |-> PyInt(i), startTime |-> Str("t0"), endTime |-> Str("t1"),
     latencyMs |-> PyInt(9), spans |-> spans]

\* the lists of n trace edges, numbered from i, with at most b spans in all
RECURSIVE TraceEdges(_, _, _)
TraceEdges(n, i, b) ==
    IF n = 0 THEN {<<>>}
    ELSE UNION {{<<Edge(TraceNode(i, sf))>> \o rest :
                    rest \in TraceEdges(n - 1, i + 1,
                                        b - Len(Edges([spans |-> sf], "spans")))} :
                sf \in SpanFields(b)}

\* the session objects of at most t traces and b spans: the server's trace
\* count is that of the edges it returned, or more when the page of traces
\* it returned (the first 100) was cut
SessionNodes(t, b) ==
    {[sessionId |-> Str("s1"), numTraces |-> PyInt(c), startTime |-> Str("t0"),
      endTime |-> Str("t1"), traces |-> Absent] : c \in 0..1}
    \cup UNION {{[sessionId |-> Str("s1"), numTraces |-> PyInt(Len(e) + more),
                  startTime |-> Str("t0"), endTime |-> Str("t1"),
                  traces |-> [edges |-> PyList(e)]] :
                    e \in TraceEdges(n, 1, b), more \in 0..1} :
                n \in 0..t}

\* the data of a payload without a session object
NoSessionData == {Absent, EmptyData, [getProjectSessionById |-> PyNone]}

\* the payloads: without errors, and with errors beside a null data, a data
\* without a session object or a data with one (of one trace of one span)
Payloads ==
    {[errors |-> Absent, data |-> d] :
        d \in NoSessionData
              \cup {[getProjectSessionById |-> sn] :
                        sn \in SessionNodes(MaxTraces, MaxSpans)}}
    \cup {[errors |-> PyList(<<Str("bad query")>>), data |-> d] :
            d \in NoSessionData \cup {PyNone}
                  \cup {[getProjectSessionById |-> sn] :
                            sn \in SessionNodes(1, 1)}}

Responses ==
    {[status_code |-> c, body |-> PyNone] : c \in {404, 500}}
    \cup {[status_code |-> 200, body |-> b] : b \in Payloads}

ArgValues ==
    {[session_id |-> Str("s1"), output |-> o] :
        o \in {PyNone, Str("traces.json")}}

----------------------------------------------------------------------------
(* main *)

\* json.dumps(result, indent=2, default=str): the document, with each
\* span's attributes serialized
DumpSpanData(sd) == [sd EXCEPT !.attributes = JsonDumps(sd.attributes)]
DumpTraceData(td) ==
    [td EXCEPT !.spans = [i \in 1..Len(td.spans) |-> DumpSpanData(td.spans[i])]]
DumpResult(r) ==
    [r EXCEPT !.traces = [i \in 1..Len(r.traces) |-> DumpTraceData(r.traces[i])]]

RECURSIVE SumSpans(_)
\* sum(len(t["spans"]) for t in result["traces"])
SumSpans(traces) ==
    IF traces = <<>> THEN 0
    ELSE Len(Head(traces).spans) + SumSpans(Tail(traces))

Banner ==
    <<[msg |-> "Fetching traces for session"], [msg |-> "Phoenix URL"]>>

SpanIdle ==
    /\ spc = "idle" /\ span = PyNone /\ span_data = NotYet /\ dumped = <<>>

InitFetch ==
    /\ XrefIdle
    /\ SpanIdle
    /\ ListerIdle
    /\ pc = "start"
    /\ args \in ArgValues
    /\ response \in Responses
    /\ result = NotYet
    /\ stderr = <<>>
    /\ stdout = <<>>
    /\ outfile = <<>>
    /\ exitCode = -1

\* lines 159-163: the banner and a fetch that returns
Fetch ==
    /\ pc = "start"
    /\ result' = FetchTraces(response)
    /\ result'.tag = "return"
    /\ stderr' = stderr \o Banner
    /\ pc' = "fetched"
    /\ UNCHANGED <<args, response, stdout, outfile, exitCode, spanVars, listerVars, xrefVars>>

\* lines 159-166: the banner and a fetch that raises
FetchFails ==
    /\ pc = "start"
    /\ result' = FetchTraces(response)
    /\ result'.tag = "raise"
    /\ stderr' = stderr \o Banner
                    \o <<[msg |-> "Error fetching traces", exc |-> result'.exc]>>
    /\ exitCode' = 1
    /\ pc' = "exit"
    /\ UNCHANGED <<args, response, stdout, outfile, spanVars, listerVars, xrefVars>>

\* lines 168-170
NoSession ==
    /\ pc = "fetched"
    /\ ~Truthy(result.val)
    /\ stderr' = stderr \o <<[msg |-> "No session found for ID"]>>
    /\ exitCode' = 1
    /\ pc' = "exit"
    /\ UNCHANGED <<args, response, result, stdout, outfile, spanVars, listerVars, xrefVars>>

\* lines 172-173
Report ==
    /\ pc = "fetched"
    /\ Truthy(result.val)
    /\ stderr' = stderr \o <<[msg |-> "Found", traces |-> result.val.numTraces,
                              spans |-> SumSpans(result.val.traces)]>>
    /\ pc' = "reported"
    /\ UNCHANGED <<args, response, result, stdout, outfile, exitCode, spanVars, listerVars, xrefVars>>

\* lines 176-183; main returns and the process exits with 0
WriteOutput ==
    /\ pc = "reported"
    /\ LET output == DumpResult(result.val)
       IN  \/ /\ Truthy(args.output)
              /\ outfile' = outfile \o <<output>>
              /\ stderr' = stderr \o <<[msg |-> "Traces written to"]>>
              /\ UNCHANGED stdout
           \/ /\ ~Truthy(args.output)
              /\ stdout' = stdout \o <<output>>
              /\ UNCHANGED <<outfile, stderr>>
    /\ exitCode' = 0
    /\ pc' = "exit"
    /\ UNCHANGED <<args, response, result, spanVars, listerVars, xrefVars>>

NextFetch == Fetch \/ FetchFails \/ NoSession \/ Report \/ WriteOutput

SpecFetch == InitFetch /\ [][NextFetch]_vars

----------------------------------------------------------------------------
(* list_benchmark_packages.py.  A path is the sequence of names from       *)
(* packages_path down; the tree is the set of its entries [path, kind].    *)

\* os.path.isdir(path) with an existence test in its place
IsDirExists(tree, path) == \E e \in tree : e.path = path

\* os.path.isdir(path)
IsDir(tree, path) == [path |-> path, kind |-> "dir"] \in tree

\* os.listdir(path): the names of the entries of the directory
ListDir(tree, path) ==
    {e.path[Len(e.path)] :
        e \in {x \in tree : /\ Len(x.path) = Len(path) + 1
                            /\ SubSeq(x.path, 1, Len(path)) = path}}

\* os.path.join(packages_path, package_path, "_dev", "benchmark", "rally")
RallyPath(pkg) == <<pkg, "_dev", "benchmark", "rally">>

PackageNames == <<"apache", "nginx", "mysql", "redis">>
BenchmarkNames == <<"logs", "metrics", "README.md", "notes">>

Dir(path) == [path |-> path, kind |-> "dir"]
File(path) == [path |-> path, kind |-> "file"]

\* what there may be at rally_path/b
EntryTrees(pkg, b) ==
    {{},
     {File(RallyPath(pkg) \o <<b>>)},
     {Dir(RallyPath(pkg) \o <<b>>)},
     {Dir(RallyPath(pkg) \o <<b>>), Dir(RallyPath(pkg) \o <<b, "track">>)}}

\* the contents of a rally directory: something for each of the first n names
RECURSIVE RallyTrees(_, _)
RallyTrees(pkg, n) ==
    IF n = 0 THEN {{}}
    ELSE {t \cup u : t \in EntryTrees(pkg, BenchmarkNames[n]),
                     u \in RallyTrees(pkg, n - 1)}

DevDirs(pkg) ==
    {Dir(<<pkg>>), Dir(<<pkg, "_dev">>), Dir(<<pkg, "_dev", "benchmark">>)}

\* what there may be at packages_path/pkg: nothing, a file, a package
\* without _dev, without benchmark or without rally, one whose _dev or rally
\* is a file, one with a rally directory
PackageTrees(pkg) ==
    {{},
     {File(<<pkg>>)},
     {Dir(<<pkg>>)},
     {Dir(<<pkg>>), File(<<pkg, "_dev">>)},
     {Dir(<<pkg>>), Dir(<<pkg, "_dev">>)},
     DevDirs(pkg),
     DevDirs(pkg) \cup {File(RallyPath(pkg))}}
    \cup {DevDirs(pkg) \cup {Dir(RallyPath(pkg))} \cup t :
            t \in RallyTrees(pkg, MaxBenchmarks)}

RECURSIVE Trees(_)
Trees(n) ==
    IF n = 0 THEN {{}}
    ELSE {t \cup u : t \in PackageTrees(PackageNames[n]), u \in Trees(n - 1)}

SpanFetchIdle == SpanIdle /\ FetchIdle

InitLister ==
    /\ XrefIdle
    /\ SpanFetchIdle
    /\ fs \in Trees(MaxPackages)
    /\ lpc = "packages"
    /\ todo = ListDir(fs, <<>>)
    /\ package_path = ""
    /\ benchmarks = {}
    /\ printed = <<>>

\* lines 9-17: an entry with a rally directory
EnterPackage ==
    /\ lpc = "packages"
    /\ \E pkg \in todo :
        /\ IsDir(fs, RallyPath(pkg))
        /\ package_path' = pkg
        /\ todo' = todo \ {pkg}
        /\ printed' = Append(printed, [line |-> "Package: ", name |-> pkg])
        /\ benchmarks' = ListDir(fs, RallyPath(pkg))
    /\ lpc' = "benchmarks"
    /\ UNCHANGED <<fs, fetchVars, spanVars, xrefVars>>

\* lines 9-14: an entry without one
SkipPackage ==
    /\ lpc = "packages"
    /\ \E pkg \in todo :
        /\ ~IsDir(fs, RallyPath(pkg))
        /\ package_path' = pkg
        /\ todo' = todo \ {pkg}
    /\ UNCHANGED <<lpc, fs, benchmarks, printed, fetchVars, spanVars, xrefVars>>

\* lines 19-22: an entry of the rally directory that is a directory
PrintBenchmark ==
    /\ lpc = "benchmarks"
    /\ \E b \in benchmarks :
        /\ IsDir(fs, RallyPath(package_path) \o <<b>>)
        /\ benchmarks' = benchmarks \ {b}
        /\ printed' = Append(printed, [line |-> "* ", name |-> b])
    /\ UNCHANGED <<lpc, fs, todo, package_path, fetchVars, spanVars, xrefVars>>

\* lines 19-21: an entry that is not
SkipEntry ==
    /\ lpc = "benchmarks"
    /\ \E b \in benchmarks :
        /\ ~IsDir(fs, RallyPath(package_path) \o <<b>>)
        /\ benchmarks' = benchmarks \ {b}
    /\ UNCHANGED <<lpc, fs, todo, package_path, printed, fetchVars, spanVars, xrefVars>>

\* line 24
EndPackage ==
    /\ lpc = "benchmarks"
    /\ benchmarks = {}
    /\ printed' = Append(printed, [line |-> "", name |-> ""])
    /\ lpc' = "packages"
    /\ UNCHANGED <<fs, todo, package_path, benchmarks, fetchVars, spanVars, xrefVars>>

NextLister ==
    EnterPackage \/ SkipPackage \/ PrintBenchmark \/ SkipEntry \/ EndPackage

SpecLister == InitLister /\ [][NextLister]_vars

----------------------------------------------------------------------------
(* test/packages/parallel/system/script.py *)

\* key in d, of a dict's item list
HasKey(items, key) == \E i \in 1..Len(items) : items[i].key = key

\* text.split(sep): the pieces between the separators
RECURSIVE Split(_, _, _)
Split(text, sep, piece) ==
    IF text = <<>> THEN <<piece>>
    ELSE IF Head(text) = sep THEN <<piece>> \o Split(Tail(text), sep, <<>>)
    ELSE Split(Tail(text), sep, Append(piece, Head(text)))

IsSpace(t) == t = Ws \/ t = P("\n")

\* text.strip(): without the white space at its ends
RECURSIVE LStrip(_)
LStrip(text) ==
    IF text # <<>> /\ IsSpace(Head(text)) THEN LStrip(Tail(text)) ELSE text
RECURSIVE RStrip(_)
RStrip(text) ==
    IF text # <<>> /\ IsSpace(text[Len(text)])
    THEN RStrip(SubSeq(text, 1, Len(text) - 1))
    ELSE text
Strip(text) == RStrip(LStrip(text))

\* lines 27-31: the dashboard appended to the list of each reference
RECURSIVE AddReferences(_, _, _)
AddReferences(rd, references, dashboard) ==
    IF references = <<>> THEN rd
    ELSE AddReferences(
            IF HasKey(rd, Head(references))
            THEN DictPut(rd, Head(references),
                         Append(DictGet(rd, Head(references)), dashboard))
            ELSE DictPut(rd, Head(references), <<dashboard>>),
            Tail(references), dashboard)

\* lines 38-40 and 47-49: each reference of the list with its number
Numbered(references, rd) ==
    [i \in 1..Len(references) |->
        [ref |-> references[i], number |-> Len(DictGet(rd, references[i]))]]

\* lines 45-50: the report of every dashboard
RECURSIVE AllReports(_, _)
AllReports(dr, rd) ==
    IF dr = <<>> THEN <<>>
    ELSE <<[dashboard |-> Head(dr).key]>> \o Numbered(Head(dr).val, rd)
            \o <<[blank |-> TRUE]>> \o AllReports(Tail(dr), rd)

\* the text of a line dashboard:ref1, ref2, ...
RECURSIVE Joined(_)
Joined(references) ==
    IF Len(references) = 1 THEN <<Word(references[1])>>
    ELSE <<Word(references[1]), P(","), Ws>> \o Joined(Tail(references))
LineText(l) ==
    <<Word(l.dashboard), P(":")>> \o Joined(l.references) \o <<P("\n")>>

DashboardNames == {"A", "B"}
ReferenceNames == {"x", "y"}

ListLines ==
    {[dashboard |-> d, references |-> r] :
        d \in DashboardNames,
        r \in UNION {[1..n -> ReferenceNames] : n \in 1..MaxRefs}}
ListFiles == UNION {[1..n -> ListLines] : n \in 0..MaxLines}

Name(w) == <<Word(w)>>

XrefArgs ==
    {[reference |-> r, dashboard |-> d, all_dashboards |-> a] :
        r \in {PyNone} \cup {PyStr(Name(w)) : w \in ReferenceNames},
        d \in {PyNone} \cup {PyStr(Name(w)) : w \in DashboardNames},
        a \in BOOLEAN}

OthersIdle == SpanIdle /\ FetchIdle /\ ListerIdle

InitXref ==
    /\ OthersIdle
    /\ listfile \in ListFiles
    /\ lines = [i \in 1..Len(listfile) |-> LineText(listfile[i])]
    /\ xpc = "loop"
    /\ line_no = 0
    /\ dashboards_references = <<>>
    /\ references_dashboards = <<>>
    /\ xargs = PyNone
    /\ xout = <<>>

\* lines 19-31: the body of the loop for one line
ReadLine ==
    /\ xpc = "loop"
    /\ line_no < Len(lines)
    /\ line_no' = line_no + 1
    /\ LET fields == Split(lines[line_no + 1], P(":"), <<>>)
       IN  IF Len(fields) < 2
           THEN /\ xpc' = "crashed"
                /\ UNCHANGED <<dashboards_references, references_dashboards>>
           ELSE LET dashboard == fields[1]
                    pieces == Split(fields[2], P(","), <<>>)
                    references == [i \in 1..Len(pieces) |-> Strip(pieces[i])]
                IN  /\ dashboards_references'
                        = DictPut(dashboards_references, dashboard, references)
                    /\ references_dashboards'
                        = AddReferences(references_dashboards, references,
                                        dashboard)
                    /\ xpc' = "loop"
    /\ UNCHANGED <<listfile, lines, xargs, xout, fetchVars, spanVars, listerVars>>

\* what lines 33-50 print, given the arguments
ReferenceReport(a) ==
    IF Truthy(a.reference)
    THEN <<[list |-> DictGet(references_dashboards, a.reference.text)]>>
    ELSE <<>>
DashboardReport(a) ==
    IF Truthy(a.dashboard)
    THEN <<[list |-> DictGet(dashboards_references, a.dashboard.text)]>>
            \o Numbered(DictGet(dashboards_references, a.dashboard.text),
                        references_dashboards)
    ELSE <<>>

\* lines 33-50: the queries, after the loop; a key the dict does not have
\* ends the run with KeyError, after what was printed before
Query ==
    /\ xpc = "loop"
    /\ line_no = Len(lines)
    /\ \E a \in XrefArgs :
        /\ xargs' = a
        /\ IF Truthy(a.reference)
              /\ ~HasKey(references_dashboards, a.reference.text)
           THEN xout' = <<>> /\ xpc' = "crashed"
           ELSE IF Truthy(a.dashboard)
                   /\ ~HasKey(dashboards_references, a.dashboard.text)
           THEN xout' = ReferenceReport(a) /\ xpc' = "crashed"
           ELSE /\ xout' = ReferenceReport(a) \o DashboardReport(a)
                            \o <<[blank |-> TRUE]>>
                            \o (IF a.all_dashboards
                                THEN AllReports(dashboards_references,
                                                references_dashboards)
                                ELSE <<>>)
                /\ xpc' = "done"
    /\ UNCHANGED <<listfile, lines, line_no, dashboards_references,
                   references_dashboards, fetchVars, spanVars, listerVars>>

NextXref == ReadLine \/ Query

SpecXref == InitXref /\ [][NextXref]_vars

----------------------------------------------------------------------------
(* What the claims speak of *)

\* the response carries a session object
CarriesSession(resp) ==
    /\ ~IsErrorStatus(resp.status_code)
    /\ "getProjectSessionById" \in DOMAIN resp.body.data
    /\ "sessionId" \in DOMAIN resp.body.data.getProjectSessionById

\* the payload has a top-level errors field
HasErrors(resp) == ~IsErrorStatus(resp.status_code) /\ resp.body.errors # Absent

\* the trace edges of the session the response carries, and their span edges
InTraces == Edges(response.body.data.getProjectSessionById, "traces")
InSpans(i) == Edges(InTraces[i].node, "spans")

\* fetch_traces returned a Session
GotSession == result.tag = "return" /\ result.val # PyNone
OutTraces == result.val.traces

\* the flattened traces and spans are those of the edges, one for one and in
\* their order
SameShape ==
    /\ Len(OutTraces) = Len(InTraces)
    /\ \A i \in 1..Len(InTraces) :
        /\ OutTraces[i].traceId = InTraces[i].node.traceId
        /\ Len(OutTraces[i].spans) = Len(InSpans(i))
        /\ \A j \in 1..Len(InSpans(i)) :
            OutTraces[i].spans[j].name = InSpans(i)[j].node.name

\* a str that json.loads rejects
Undecodable(v) == IsStr(v) /\ ~JsonLoads(v.text).ok
\* a str that json.loads accepts
Decodable(v) == IsStr(v) /\ JsonLoads(v.text).ok

NothingWritten == stdout = <<>> /\ outfile = <<>>

Printed(m) == \E i \in 1..Len(stderr) : stderr[i].msg = m

\* C1: a response that carries a session object of N traces, the i-th of
\* s_i spans, makes fetch_traces return a Session of N traces, the i-th of
\* s_i spans, in the order of the edges (read here for the responses of a
\* successful request without an errors field).
C1_SessionShapePreserved ==
    (pc # "start" /\ CarriesSession(response) /\ ~HasErrors(response))
        => (GotSession /\ SameShape)

C3_FailureExitsOneWithoutOutput ==
    /\ (pc # "start"
        /\ (IsErrorStatus(response.status_code) \/ HasErrors(response)))
         => /\ result.tag = "raise"
            /\ pc = "exit"
            /\ exitCode = 1
            /\ Printed("Error fetching traces")
            /\ NothingWritten
    /\ exitCode = 0 => GotSession
    /\ ~NothingWritten => GotSession

W3_ErrorsBesideSession ==
    /\ pc = "exit"
    /\ HasErrors(response)
    /\ response.body.data # PyNone
    /\ CarriesSession(response)
    /\ exitCode = 1

\* a reason for fetch_traces to raise that is not the decoding of attributes
RaisesAnyway(resp) ==
    \/ IsErrorStatus(resp.status_code)
    \/ HasErrors(resp)
    \/ /\ CarriesSession(resp)
       /\ \E i \in 1..Len(InTraces) : \E j \in 1..Len(InSpans(i)) :
            \E f \in SpanIndexed : InSpans(i)[j].node[f] = Absent

\* C4: a span whose attributes is a str that is not valid JSON keeps that
\* str unchanged, and the decode failure does not abort the fetch: it never
\* raises JSONDecodeError, it raises only for another reason, and a Session
\* it returns has every trace and span of the response.
C4_UndecodableAttributesKept ==
    pc # "start" =>
        /\ result.tag = "raise" =>
            (result.exc # "JSONDecodeError" /\ RaisesAnyway(response))
        /\ GotSession =>
            /\ SameShape
            /\ \A i \in 1..Len(InTraces) : \A j \in 1..Len(InSpans(i)) :
                Undecodable(Get(InSpans(i)[j].node, "attributes"))
                    => OutTraces[i].spans[j].attributes
                            = InSpans(i)[j].node.attributes

W4_BrokenBesideOthers ==
    /\ pc = "exit"
    /\ exitCode = 0
    /\ Len(OutTraces) = 2
    /\ Len(OutTraces[1].spans) = 1
    /\ OutTraces[1].spans[1].attributes = PyStr(BrokenText)
    /\ Len(OutTraces[2].spans) = 1
    /\ IsDict(OutTraces[2].spans[1].attributes)

\* C10: after a successful fetch the summary gives the number of traces of
\* the returned Session and the sum of the lengths of their spans.
C10_SummaryCountsReturnedTraces ==
    \A i \in 1..Len(stderr) :
        stderr[i].msg = "Found"
            => /\ stderr[i].traces = PyInt(Len(OutTraces))
               /\ stderr[i].spans = SumSpans(OutTraces)

----------------------------------------------------------------------------
(* The claim about the benchmark lister *)

\* the outer loop has taken every entry
ListerDone == lpc = "packages" /\ todo = {}

AllNames(names) == {names[k] : k \in 1..Len(names)}

\* the places of the lines "Package: ..." in the output
PackageLines == {i \in 1..Len(printed) : printed[i].line = "Package: "}

\* the place of the first empty line after line i
SectionEnd(i) ==
    CHOOSE k \in (i + 1)..Len(printed) :
        /\ printed[k].line = ""
        /\ \A m \in (i + 1)..(k - 1) : printed[m].line # ""

\* C9: the lister prints a package's name if and only if the package has
\* the directory _dev/benchmark/rally, once, and beneath it, up to the empty
\* line, exactly the names of the entries of that directory that are
\* directories, once each.
C9_ListsRallyPackagesAndBenchmarkDirs ==
    ListerDone =>
        /\ \A pkg \in AllNames(PackageNames) :
            (\E i \in PackageLines : printed[i].name = pkg)
                <=> Dir(RallyPath(pkg)) \in fs
        /\ \A i, j \in PackageLines :
            printed[i].name = printed[j].name => i = j
        /\ \A i \in PackageLines :
            /\ \E k \in (i + 1)..Len(printed) : printed[k].line = ""
            /\ \A m \in (i + 1)..(SectionEnd(i) - 1) :
                /\ printed[m].line = "* "
                /\ \A n \in (i + 1)..(SectionEnd(i) - 1) :
                    printed[m].name = printed[n].name => m = n
            /\ {printed[m].name : m \in (i + 1)..(SectionEnd(i) - 1)}
                = {b \in AllNames(BenchmarkNames) :
                    Dir(RallyPath(printed[i].name) \o <<b>>) \in fs}

W9_FileAndDeepDirectory ==
    /\ ListerDone
    /\ File(RallyPath("apache") \o <<"logs">>) \in fs
    /\ Dir(RallyPath("apache") \o <<"metrics", "track">>) \in fs
    /\ printed = <<[line |-> "Package: ", name |-> "apache"],
                   [line |-> "* ", name |-> "metrics"],
                   [line |-> "", name |-> ""]>>

----------------------------------------------------------------------------
(* The claims about one span *)

OptionalFields ==
    {"input", "output", "statusMessage", "tokenCountTotal",
     "tokenCountPrompt", "tokenCountCompletion"}

Converted == spc # "node" /\ span_data.tag = "return"
OutAttributes == span_data.val.attributes

\* a text without its white space
Compact(text) == SelectSeq(text, LAMBDA t : t # Ws)

\* a string literal occurs twice in the text (as a repeated key does)
RepeatsLit(text) ==
    \E i, j \in 1..Len(text) : i < j /\ IsLit(text[i]) /\ text[i] = text[j]

\* C5: a span whose attributes is a str of valid JSON gets the decoded
\* value, not the str: the value that the text writes down (its
\* serialization is the text but for white space, when no key repeats), and
\* serializing it and decoding it again gives the same value.
C5_ValidJsonDecodedAndRoundTrips ==
    (Converted /\ Decodable(Get(span, "attributes")))
        => /\ OutAttributes # span.attributes
           /\ spc = "dumped" =>
                /\ JsonLoads(dumped).ok
                /\ JsonLoads(dumped).val = OutAttributes
                /\ ~RepeatsLit(span.attributes.text)
                    => Compact(dumped) = Compact(span.attributes.text)

W5_ObjectRoundTrip ==
    /\ spc = "dumped"
    /\ span.attributes = PyStr(<<P("{"), Lit(<<Word("a")>>), P(":"), Ws, Num(1), P("}")>>)
    /\ OutAttributes = PyDict(<<[key |-> <<Word("a")>>, val |-> PyInt(1)]>>)
    /\ dumped # span.attributes.text

\* C6: a span node without one of its optional fields is still converted,
\* and its span_data has that field's key with None.
C6_MissingOptionalIsNone ==
    spc # "node" =>
        \A f \in OptionalFields :
            span[f] = Absent
                => (span_data.tag = "return" /\ span_data.val[f] = PyNone)

\* C7: the attributes of a converted span is a mapping (the str decoded) or
\* the original str received (it did not decode), and nothing else.
C7_MappingOrOriginalString ==
    Converted =>
        \/ Decodable(Get(span, "attributes")) /\ IsDict(OutAttributes)
        \/ Undecodable(Get(span, "attributes"))
            /\ OutAttributes = span.attributes

\* C7 as amended: the attributes of a converted span is the value decoded
\* from the received str when that is a non-empty str of valid JSON (a
\* mapping, a number, a string or null), and otherwise the value received,
\* unchanged (None for a node without the key).
C7_DecodedValueOrReceived ==
    Converted =>
        IF Decodable(Get(span, "attributes"))
        THEN /\ OutAttributes.k \in {"dict", "int", "str", "None"}
             /\ \/ Compact(JsonDumps(OutAttributes))
                        = Compact(span.attributes.text)
                \/ RepeatsLit(span.attributes.text)
        ELSE OutAttributes = Get(span, "attributes")

W7_NumberDecoded ==
    /\ Converted
    /\ span.attributes = PyStr(<<Ws, Num(1)>>)
    /\ OutAttributes = PyInt(1)

(* The cross-referencer *)

\* whether the line lists the reference
Lists(l, r) == \E j \in 1..Len(l.references) : l.references[j] = r

\* the dashboards of the lines that list r, in file order, one a line
RECURSIVE DashboardsListing(_, _)
DashboardsListing(file, r) ==
    IF file = <<>> THEN <<>>
    ELSE (IF Lists(Head(file), r) THEN <<Name(Head(file).dashboard)>>
          ELSE <<>>) \o DashboardsListing(Tail(file), r)

\* how many dashboards use r
UsedBy(r) ==
    Cardinality({listfile[i].dashboard :
                    i \in {j \in 1..Len(listfile) : Lists(listfile[j], r)}})

\* the references of a line, as the script holds them
ReferencesOf(l) == [j \in 1..Len(l.references) |-> Name(l.references[j])]

MappedTo(items, key) == IF HasKey(items, key) THEN DictGet(items, key) ELSE <<>>

\* C8: after all the lines, the reference->dashboards mapping of r is the
\* dashboards of the lines that list r, in file order and one a line, the
\* dashboard->references mapping of a dashboard is the reference list of its
\* line, --reference r prints the dashboards that list r, and --dashboard d
\* prints with each reference the number of dashboards that use it.
C8_MappingsAndCounts ==
    xpc = "done" =>
        /\ \A r \in ReferenceNames :
            /\ MappedTo(references_dashboards, Name(r))
                    = DashboardsListing(listfile, r)
            /\ xargs.reference = PyStr(Name(r))
                    => xout[1].list = DashboardsListing(listfile, r)
        /\ \A i \in 1..Len(dashboards_references) :
            \E j \in 1..Len(listfile) :
                /\ Name(listfile[j].dashboard) = dashboards_references[i].key
                /\ ReferencesOf(listfile[j]) = dashboards_references[i].val
        /\ \A i \in 1..Len(xout) :
            "number" \in DOMAIN xout[i]
                => \E r \in ReferenceNames :
                    /\ xout[i].ref = Name(r)
                    /\ xout[i].number = UsedBy(r)

\* the example of the specification: lines A:x, y and B:y
W8_Example ==
    /\ xpc = "done"
    /\ listfile = <<[dashboard |-> "A", references |-> <<"x", "y">>],
                    [dashboard |-> "B", references |-> <<"y">>]>>
    /\ xargs = [reference |-> PyStr(Name("y")), dashboard |-> PyStr(Name("A")),
                all_dashboards |-> FALSE]
    /\ xout = <<[list |-> <<Name("A"), Name("B")>>],
                [list |-> <<Name("x"), Name("y")>>],
                [ref |-> Name("x"), number |-> 1],
                [ref |-> Name("y"), number |-> 2],
                [blank |-> TRUE]>>

====
